---- MODULE Spec2Model ----
(***************************************************************************)
(* The TDT (token-and-duration transducer) greedy decode loop of           *)
(* scripts/onnx/test_tdt_decode.py.                                        *)
(*                                                                         *)
(* The script decodes the same utterance three times, once per             *)
(* normalisation of the mel spectrogram.  Each decode initialises its      *)
(* state, runs the while loop (one decoder call per iteration) and prints  *)
(* the result.  The ONNX decoder session is a deterministic function that  *)
(* the script does not control: it is modelled as a function discovered    *)
(* call by call (decoder_graph), so that every deterministic decoder over  *)
(* the score vectors of JointOutputs is covered.                           *)
(*                                                                         *)
(* The text assembly of line 85 is the operator assemble, applied by       *)
(* Report.  The second program of the module is scripts/onnx/              *)
(* patch_encoder.py: one run of its main() over a model directory          *)
(* (PatchRun, specification PatchSpec).                                    *)
(***************************************************************************)
EXTENDS Integers, Sequences, FiniteSets, TLC

VARIABLES
    norm,               \* index of the normalisation being decoded (for loop, line 32)
    pc,                 \* position of the script: "setup", "loop", "report", "done", "failed"
    enc_hidden,         \* encoder output of this normalisation (line 50), an opaque id
    enc_T,              \* valid encoder length (line 51)
    lstm,               \* recurrent state lstm_h/lstm_c (lines 56-57, 73-74)
    tokens,             \* emitted token ids (line 59)
    t,                  \* frame index (line 60)
    last_label,         \* last emitted label (line 61)
    iters,              \* loop iteration counter (line 62)
    best,               \* local `best` (line 76), -1 while unbound
    dur_idx,            \* local `dur_idx` (line 82), -1 while unbound
    maxStepMultiplier,  \* the factor of the iteration cap (the literal 10 of line 63)
    decoder_graph,      \* the part of dec_sess's input/output function seen so far
    dec_calls,          \* number of dec_sess.run calls made by the current decode
    printed,            \* what the script has reported, one record per decode (lines 86-87)
    vocab,              \* the vocabulary pieces read from vocab.txt (lines 11-12)
    model_dir,          \* patch_encoder: the files of --model-dir
    dry_run,            \* patch_encoder: args.dry_run of the last run
    outcomes            \* patch_encoder: how each run of main() so far ended

decode_vars == <<norm, pc, enc_hidden, enc_T, lstm, tokens, t, last_label, iters, best,
                 dur_idx, maxStepMultiplier, decoder_graph, dec_calls, printed, vocab>>

patch_vars == <<model_dir, dry_run, outcomes>>

vars == <<decode_vars, patch_vars>>

----------------------------------------------------------------------------
(* Bounds of the model. *)

\* Largest valid encoder length explored.
MaxT == 2

\* Number of vocabulary ids below blank_id (1024 in the script, scaled down).
VocabSize == 8

\* Longest token sequence and largest token id handed to the text assembly.
MaxTokens == 3
MaxTokenId == 4

\* Largest valid encoder length of the constant-stub scenarios.
ScenarioMaxT == 4

\* Number of runs of patch_encoder over one model directory.
MaxRuns == 3

\* Iteration-cap factors 1..MaxMultiplier are explored besides the script's 10.
MaxMultiplier == 1

----------------------------------------------------------------------------
(* Program constants. *)

\* blank_id = 1024: the index right after the last vocabulary id.
blank_id == VocabSize

tdt_durations == <<0, 1, 2, 3, 4>>

\* The factor of `iters < enc_T * 10`.
DefaultMultiplier == 10

\* The for loop of line 32 decodes three normalisations.
NumNorms == 3

\* Encoder outputs the three normalisations can produce (opaque ids).
EncoderOutputs == {0, 1}

\* Length of one joint score vector: vocabulary, blank, duration classes.
JointLen == blank_id + 1 + Len(tdt_durations)

----------------------------------------------------------------------------
(* Score vectors: functions over 0 .. JointLen-1, as numpy arrays are. *)

ScoreVec(high, mid) ==
    [i \in 0 .. (JointLen - 1) |-> IF i \in high THEN 2 ELSE IF i \in mid THEN 1 ELSE 0]

\* The score vectors the decoder stub can return for one frame.
JointOutputs ==
    { ScoreVec({}, {blank_id}),                            \* blank on top
      ScoreVec({blank_id + 1 + 2}, {blank_id - 1}),        \* last piece, duration index 2
      ScoreVec({}, {blank_id - 1, blank_id,
                    blank_id + 1 + 1, blank_id + 1 + 4}),  \* piece ties with blank, durations tie
      ScoreVec({blank_id + 1 + 4}, {0}),                   \* piece 0, duration index 4
      ScoreVec({blank_id + 1}, {0}) }                      \* piece 0, duration index 0

VecLen(v) == Cardinality(DOMAIN v)

Min(a, b) == IF a < b THEN a ELSE b
Max(a, b) == IF a > b THEN a ELSE b

\* v[from:to] of a numpy vector, as a sequence (the end is clamped to the length).
Slice(v, from, to) ==
    [k \in 1 .. Max(0, Min(to, VecLen(v)) - from) |-> v[from + k - 1]]

\* np.argmax: the 0-based index of the first maximum, scanning left to right.
\* b is the best position so far; the next one is passed on as the argument nb
\* of a function, so it is computed once for each position.
RECURSIVE ArgMaxFrom(_, _, _)
ArgMaxFrom(s, i, b) ==
    IF i > Len(s) THEN b
    ELSE [nb \in {i, b} |-> ArgMaxFrom(s, i + 1, nb)][IF s[i] > s[b] THEN i ELSE b]

argmax(s) == ArgMaxFrom(s, 2, 1) - 1

----------------------------------------------------------------------------
(* Text assembly (line 85).  A string is a sequence of characters; U+2581 is
   the character Marker. *)

Marker == "U+2581"

\* The characters str.strip() removes that occur in the model.
Whitespace == {" ", "\t"}

\* vocab[tid] of a Python list: a negative index counts from the end.
PyIndex(list, i) == IF i >= 0 THEN list[i + 1] ELSE list[Len(list) + i + 1]

\* The filter of the generator: tid < len(vocab).
KeepToken(tid, pieces) == tid < Len(pieces)

\* ''.join(vocab[tid] for tid in tokens if tid < len(vocab))
RECURSIVE JoinPieces(_, _)
JoinPieces(ids, pieces) ==
    IF ids = << >> THEN << >>
    ELSE (IF KeepToken(Head(ids), pieces) THEN PyIndex(pieces, Head(ids)) ELSE << >>)
         \o JoinPieces(Tail(ids), pieces)

\* vocab[tid] raises IndexError for a kept id outside -len(vocab) .. len(vocab)-1.
AssemblyRaises(ids, pieces) ==
    \E i \in 1 .. Len(ids) :
        /\ KeepToken(ids[i], pieces)
        /\ ids[i] \notin (0 - Len(pieces)) .. (Len(pieces) - 1)

\* Variant: the marker is removed, .replace('\u2581', '').
ReplaceMarkerByNothing(str) == SelectSeq(str, LAMBDA c : c # Marker)

\* .replace('\u2581', ' ')
ReplaceMarker(str) == [i \in 1 .. Len(str) |-> IF str[i] = Marker THEN " " ELSE str[i]]

RECURSIVE LStrip(_)
LStrip(str) ==
    IF str # << >> /\ Head(str) \in Whitespace THEN LStrip(Tail(str)) ELSE str

RECURSIVE RStrip(_)
RStrip(str) ==
    IF str # << >> /\ str[Len(str)] \in Whitespace
      THEN RStrip(SubSeq(str, 1, Len(str) - 1))
      ELSE str

\* Variant: only leading whitespace is removed (lstrip).
StripLeading(str) == LStrip(str)

\* .strip()
Strip(str) == RStrip(LStrip(str))

\* Line 85.
assemble(ids, pieces) == Strip(ReplaceMarker(JoinPieces(ids, pieces)))

\* The vocabulary of Scenario D: "(U+2581)hi", "(U+2581)there", "foo", "bar".
ScenarioDVocab ==
    << <<Marker, "h", "i">>, <<Marker, "t", "h", "e", "r", "e">>,
       <<"f", "o", "o">>, <<"b", "a", "r">> >>

\* The vocabularies vocab.txt can hold.
Vocabularies ==
    { ScenarioDVocab,
      << >>,
      << <<Marker, "a">> >>,
      << <<" ", "a", Marker>>, <<"b", "\t">>, <<Marker>>, << >>, <<"c", " ", Marker, "d">> >> }

\* The token sequences a decode can hand to the assembly.
RECURSIVE SeqsUpTo(_, _)
SeqsUpTo(S, n) ==
    IF n = 0 THEN {<< >>}
    ELSE LET shorter == SeqsUpTo(S, n - 1)
         IN  shorter \cup {Append(q, x) : q \in shorter, x \in S}

TokenSeqs == SeqsUpTo(0 .. MaxTokenId, MaxTokens)

----------------------------------------------------------------------------
(* The pieces of one loop iteration. *)

\* Variant: the slice ends one entry late, logits[:blank_id + 2].
VocabSegmentWide(logits) == Slice(logits, 0, blank_id + 2)

\* logits[:blank_id + 1]
VocabSegment(logits) == Slice(logits, 0, blank_id + 1)

\* Variant: the slice starts one entry early, logits[blank_id:].
DurSegmentFromBlank(logits) == Slice(logits, blank_id, VecLen(logits))

\* logits[blank_id + 1:]
DurSegment(logits) == Slice(logits, blank_id + 1, VecLen(logits))

\* Variant: no floor, t += tdt_durations[dur_idx].
AdvanceNoFloor(d) == tdt_durations[d + 1]

\* Variant: every emit advances one frame, the duration is ignored.
AdvanceOne(d) == 1

\* Variant: the duration is added on top of the frame, t += 1 + tdt_durations[dur_idx].
AdvancePlusOne(d) == 1 + tdt_durations[d + 1]

\* max(1, tdt_durations[dur_idx]) for an index inside the table.
Advance(d) == Max(1, tdt_durations[d + 1])

\* Variant: both comparisons inclusive.
LoopCondInclusive(tt, TT, ii, m) == tt <= TT /\ ii <= TT * m

\* Variant: the guard is tested after the body (the first iteration always runs).
LoopCondDoWhile(tt, TT, ii, m) == ii = 0 \/ (tt < TT /\ ii < TT * m)

\* Variant: the last frame is left out.
LoopCondShort(tt, TT, ii, m) == tt + 1 < TT /\ ii < TT * m

\* The while guard: t < enc_T and iters < enc_T * 10.
LoopCond(tt, TT, ii, m) == tt < TT /\ ii < TT * m

\* The recurrent state dec_sess returns for (input state, target): the decoder
\* is the free recurrent machine, its state is the list of targets it was fed.
DecoderState(state, target) == Append(state, target)

\* np.zeros((2, 1, 640)): the state no target has been fed to.
ZeroState == << >>

\* The input of one dec_sess.run call that decides joint[0, t, 0, :].
DecoderKey == <<enc_hidden, t, last_label, lstm>>

\* joint[0, t, 0, :] of a dec_sess.run call: what the decoder returned for the
\* same input before, any score vector for an input not seen yet.
DecoderJoint(key) ==
    IF key \in DOMAIN decoder_graph THEN {decoder_graph[key]} ELSE JointOutputs

----------------------------------------------------------------------------
(* patch_encoder.py: the model directory.  A file is << >> when it does not
   exist and <<content>> when it does. *)

EmptyDir == [encoder |-> << >>, data |-> << >>, backup |-> << >>, backup_data |-> << >>]

\* What the script reads of an encoder graph: the initializer Constant_104 (<< >>
\* when the graph has none), whether every Slice_3 node takes its axes from it, and
\* the number of value_info entries.
Graphs == [constant : {<< >>, <<2>>, <<3>>}, slices_ok : BOOLEAN, value_info : {0, 2}]

\* The weights an encoder.onnx_data file holds, one entry per write of the tensors.
Weights == <<"weights">>

\* The model directories the script can be started on.
ModelDirs ==
    [encoder : {<< >>} \cup {<<g>> : g \in Graphs},
     data : {<< >>, Weights},
     backup : {<< >>} \cup {<<g>> : g \in Graphs},
     backup_data : {<< >>, Weights}]

\* diagnose(): (needs_patch, current_axis_value).
diagnose(graph) ==
    IF graph.constant = << >>
      THEN [needs_patch |-> FALSE, val |-> -1]
      ELSE [needs_patch |-> graph.constant[1] # 2, val |-> graph.constant[1]]

\* patch_graph(), once its assertion on the Slice_3 nodes has passed.
patch_graph(graph) == [graph EXCEPT !.constant = <<2>>, !.value_info = 0]

\* Variant: the test for an existing backup is missing.
BackupAlways(dir) == TRUE

\* Line 133: not os.path.exists(backup_path).
BackupNeeded(dir) == dir.backup = << >>

\* Lines 133-139: the renames of the original graph and of its weights.
Backup(dir) ==
    IF BackupNeeded(dir)
      THEN LET move_data == dir.data # << >> /\ dir.backup_data = << >>
           IN  [dir EXCEPT !.backup = dir.encoder,
                           !.encoder = << >>,
                           !.backup_data = IF move_data THEN dir.data ELSE @,
                           !.data = IF move_data THEN << >> ELSE @]
      ELSE dir

\* Lines 142-149: onnx.save writes the graph file anew; an existing weights file
\* is written anew or appended to, depending on the onnx release.
Save(dir, graph) ==
    { [dir EXCEPT !.encoder = <<graph>>, !.data = w] :
        w \in IF dir.data = << >> THEN {Weights} ELSE {Weights, dir.data \o Weights} }

\* main(): how a run with the given --dry-run ends and the directory it leaves.
RunResults(dir, dry) ==
    IF dir.encoder = << >>
      THEN {[outcome |-> "not_found", dir |-> dir]}                  \* sys.exit(1)
    ELSE IF ~diagnose(dir.encoder[1]).needs_patch
      THEN {[outcome |-> "ok", dir |-> dir]}
    ELSE IF dry
      THEN {[outcome |-> "dry_run", dir |-> dir]}
    ELSE IF dir.data = << >>
      THEN {[outcome |-> "load_failed", dir |-> dir]}                \* onnx.load raises
    ELSE IF ~dir.encoder[1].slices_ok
      THEN {[outcome |-> "assert_failed", dir |-> dir]}              \* line 76
    ELSE {[outcome |-> "patched", dir |-> d] :
             d \in Save(Backup(dir), patch_graph(dir.encoder[1]))}

----------------------------------------------------------------------------
(* State after the models, the vocabulary and the audio are loaded
   (lines 1-29): nothing decoded yet.  enc_T is the same for the three
   normalisations, as the padded length they are fed with is. *)

InitWith(multipliers) ==
    /\ norm = 1
    /\ pc = "setup"
    /\ enc_hidden = 0
    /\ enc_T \in 0 .. MaxT
    /\ lstm = ZeroState
    /\ tokens = << >>
    /\ t = 0
    /\ last_label = blank_id
    /\ iters = 0
    /\ best = -1
    /\ dur_idx = -1
    /\ maxStepMultiplier \in multipliers
    /\ decoder_graph = << >>
    /\ dec_calls = 0
    /\ printed = << >>
    /\ vocab = ScenarioDVocab

\* patch_encoder has not been run.
NoPatchRun ==
    /\ model_dir = EmptyDir
    /\ dry_run = FALSE
    /\ outcomes = << >>

\* The script: the cap factor is 10.
Init == InitWith({DefaultMultiplier}) /\ NoPatchRun

\* The decode contract with the cap factor as a parameter.
InitAnyCap == InitWith((1 .. MaxMultiplier) \cup {DefaultMultiplier}) /\ NoPatchRun

\* The score vector of a stub that selects piece v and duration index q.
ConstantVec(v, q) == ScoreVec({blank_id + 1 + q}, {v})

\* A decoder that answers ConstantVec(v, q) at every frame, whatever it was fed.
ConstantGraph(v, q) ==
    [key \in { <<e, f, IF k = 0 THEN blank_id ELSE v,
                 [i \in 1 .. k |-> IF i = 1 THEN blank_id ELSE v]>> :
                   e \in EncoderOutputs, f \in 0 .. (ScenarioMaxT - 1),
                   k \in 0 .. (ScenarioMaxT - 1) }
        |-> ConstantVec(v, q)]

\* The script before its first decode, with a constant decoder.
InitScenario ==
    /\ norm = 1
    /\ pc = "setup"
    /\ enc_hidden = 0
    /\ enc_T \in 1 .. ScenarioMaxT
    /\ lstm = ZeroState
    /\ tokens = << >>
    /\ t = 0
    /\ last_label = blank_id
    /\ iters = 0
    /\ best = -1
    /\ dur_idx = -1
    /\ maxStepMultiplier = DefaultMultiplier
    /\ \E v \in 0 .. (blank_id - 1), q \in 0 .. (Len(tdt_durations) - 1) :
           decoder_graph = ConstantGraph(v, q)
    /\ dec_calls = 0
    /\ printed = << >>
    /\ vocab = ScenarioDVocab
    /\ NoPatchRun

\* The script at line 85 with any token sequence and any vocabulary.
InitAssemble ==
    /\ norm = NumNorms
    /\ pc = "report"
    /\ enc_hidden = 0
    /\ tokens \in TokenSeqs
    /\ enc_T = Len(tokens)
    /\ lstm = ZeroState
    /\ t = Len(tokens)
    /\ last_label = blank_id
    /\ iters = Len(tokens)
    /\ best = -1
    /\ dur_idx = -1
    /\ maxStepMultiplier = DefaultMultiplier
    /\ decoder_graph = << >>
    /\ dec_calls = Len(tokens)
    /\ printed = << >>
    /\ vocab \in Vocabularies
    /\ NoPatchRun

\* Variant: the recurrent state is created once, before the for loop.
InitDecodeKeepsState ==
    /\ pc = "setup"
    /\ \E e \in EncoderOutputs : enc_hidden' = e
    /\ tokens' = << >>
    /\ t' = 0
    /\ last_label' = blank_id
    /\ iters' = 0
    /\ dec_calls' = 0
    /\ pc' = "loop"
    /\ UNCHANGED <<norm, enc_T, lstm, best, dur_idx, maxStepMultiplier, decoder_graph,
                   printed, vocab>>
    /\ UNCHANGED patch_vars

\* Lines 37-62: normalise, pad, run the encoder, initialise the decode state.
InitDecode ==
    /\ pc = "setup"
    /\ \E e \in EncoderOutputs : enc_hidden' = e
    /\ lstm' = ZeroState
    /\ tokens' = << >>
    /\ t' = 0
    /\ last_label' = blank_id
    /\ iters' = 0
    /\ dec_calls' = 0
    /\ pc' = "loop"
    /\ UNCHANGED <<norm, enc_T, best, dur_idx, maxStepMultiplier, decoder_graph, printed,
                   vocab>>
    /\ UNCHANGED patch_vars

\* Lines 63-83: one iteration of the while loop.
Step ==
    /\ pc = "loop"
    /\ LoopCond(t, enc_T, iters, maxStepMultiplier)
    /\ \E logits \in DecoderJoint(DecoderKey) :
         \E b \in {argmax(VocabSegment(logits))}, d \in {argmax(DurSegment(logits))} :
             /\ iters' = iters + 1
             /\ dec_calls' = dec_calls + 1
             /\ decoder_graph' = (DecoderKey :> logits) @@ decoder_graph
             /\ lstm' = DecoderState(lstm, last_label)
             /\ best' = b
             /\ IF b = blank_id
                  THEN /\ t' = t + 1
                       /\ UNCHANGED <<tokens, last_label, dur_idx, pc>>
                  ELSE /\ tokens' = Append(tokens, b)
                       /\ last_label' = b
                       /\ dur_idx' = d
                       /\ IF d \in 0 .. (Len(tdt_durations) - 1)
                            THEN t' = t + Advance(d) /\ pc' = pc
                            ELSE t' = t /\ pc' = "failed"   \* IndexError
    /\ UNCHANGED <<norm, enc_hidden, enc_T, maxStepMultiplier, printed, vocab>>
    /\ UNCHANGED patch_vars

\* Line 63, guard false: leave the loop.
ExitLoop ==
    /\ pc = "loop"
    /\ ~LoopCond(t, enc_T, iters, maxStepMultiplier)
    /\ pc' = "report"
    /\ UNCHANGED <<norm, enc_hidden, enc_T, lstm, tokens, t, last_label, iters, best,
                   dur_idx, maxStepMultiplier, decoder_graph, dec_calls, printed, vocab>>
    /\ UNCHANGED patch_vars

\* Lines 85-87: report the decode, go on with the next normalisation.
Report ==
    /\ pc = "report"
    /\ IF AssemblyRaises(tokens, vocab)
         THEN /\ pc' = "failed"   \* IndexError
              /\ UNCHANGED <<printed, norm>>
         ELSE /\ printed' = Append(printed, [enc |-> enc_hidden, tokens |-> tokens,
                                             iters |-> iters,
                                             text |-> assemble(tokens, vocab)])
              /\ norm' = norm + 1
              /\ pc' = IF norm = NumNorms THEN "done" ELSE "setup"
    /\ UNCHANGED <<enc_hidden, enc_T, lstm, tokens, t, last_label, iters, best,
                   dur_idx, maxStepMultiplier, decoder_graph, dec_calls, vocab>>
    /\ UNCHANGED patch_vars

Next == InitDecode \/ Step \/ ExitLoop \/ Report

Spec == Init /\ [][Next]_vars

\* The script is one sequential process: it always takes its next step.
FairSpec == InitAnyCap /\ [][Next]_vars /\ WF_vars(Next)

\* patch_encoder is started on any model directory.
PatchInit ==
    /\ InitWith({DefaultMultiplier})
    /\ enc_T = 0
    /\ model_dir \in ModelDirs
    /\ dry_run = FALSE
    /\ outcomes = << >>

\* One run of main() (lines 90-150).
PatchRun(dry) ==
    /\ Len(outcomes) < MaxRuns
    /\ \E r \in RunResults(model_dir, dry) :
         /\ model_dir' = r.dir
         /\ outcomes' = Append(outcomes, r.outcome)
    /\ dry_run' = dry
    /\ UNCHANGED decode_vars

PatchNext == \E dry \in BOOLEAN : PatchRun(dry)

PatchSpec == PatchInit /\ [][PatchNext]_vars

\* The script against a decoder that always answers the same.
ScenarioSpec == InitScenario /\ [][Next]_vars

\* Line 85 alone, on any token sequence and vocabulary.
AssembleSpec == InitAssemble /\ [][Report]_vars

----------------------------------------------------------------------------
(* Vocabulary of the properties. *)

\* truncated: the loop was left with frames to decode because the iteration cap
\* was reached.
Truncated ==
    /\ pc \in {"report", "done"}
    /\ iters >= enc_T * maxStepMultiplier
    /\ t < enc_T

\* This step is one iteration of the while loop.
IsIteration == pc = "loop" /\ iters' = iters + 1

\* The first maximum among entries lo .. hi of a score vector, as an offset from lo.
FirstMax(v, lo, hi) ==
    CHOOSE i \in 0 .. (hi - lo) :
        \A j \in 0 .. (hi - lo) :
            /\ v[lo + i] >= v[lo + j]
            /\ j < i => v[lo + j] < v[lo + i]

\* Every answer the decoder has given for the current encoder output selects a
\* vocabulary piece and the duration class of value 0.
StubNeverBlankDurZero ==
    \A k \in DOMAIN decoder_graph :
        k[1] = enc_hidden =>
            /\ FirstMax(decoder_graph[k], 0, blank_id) # blank_id
            /\ tdt_durations[FirstMax(decoder_graph[k], blank_id + 1, JointLen - 1) + 1] = 0

----------------------------------------------------------------------------
\* C1: for every T >= 1 and every cap factor >= 1 the decode loop terminates, and
\* the number of iterations it has executed never exceeds T * maxStepMultiplier.
C1_Terminates ==
    /\ [](enc_T >= 1 => (iters <= enc_T * maxStepMultiplier /\ dec_calls = iters))
    /\ [](pc = "loop" => <>(pc = "report"))

\* A decode of T >= 1 frames that has left the loop after exactly T * maxStepMultiplier
\* iterations.
C1_Witness ==
    /\ pc = "report"
    /\ enc_T >= 1
    /\ iters = enc_T * maxStepMultiplier

\* C2: the emitted token sequence never contains blank_id; every element lies in
\* [0, blank_id).
C2_NoBlankEmitted ==
    \A i \in 1 .. Len(tokens) : tokens[i] \in 0 .. (blank_id - 1)

\* A decode that has both emitted a token and decided blank.
C2_Witness ==
    /\ Len(tokens) >= 1
    /\ iters > Len(tokens)
    /\ best = blank_id

\* C3: on a blank decision the step advances t by exactly 1 and leaves the recurrent
\* state as it was passed to this step's decoder call.
C3_BlankKeepsState ==
    [][(IsIteration /\ best' = blank_id) => (t' = t + 1 /\ lstm' = lstm)]_vars

\* C4 as claimed: a stub that never selects blank and always selects the duration
\* class of value 0 drives the loop into the iteration cap; the result is truncated
\* and as long as the cap.
C4_CapHit ==
    (pc = "report" /\ enc_T >= 1 /\ StubNeverBlankDurZero) =>
        /\ Truncated
        /\ iters = enc_T * maxStepMultiplier
        /\ Len(tokens) = enc_T * maxStepMultiplier

\* C4 as amended: with such a stub every step advances t by max(1, 0) = 1, so the
\* loop runs exactly T iterations, ends at t = T not truncated, with T tokens.
C4_RunsToEnd ==
    (pc = "report" /\ enc_T >= 1 /\ StubNeverBlankDurZero) =>
        /\ ~Truncated
        /\ t = enc_T
        /\ iters = enc_T
        /\ Len(tokens) = enc_T

\* A decode of two frames finished against such a stub.
C4_Witness ==
    /\ pc = "report"
    /\ enc_T >= 2
    /\ iters >= 2
    /\ StubNeverBlankDurZero

\* C5: within one decode t never decreases, and when the loop is left without
\* truncation t >= T.
C5_TMonotone ==
    [][pc = "loop" => (t' >= t /\ ((pc' = "report" /\ ~Truncated') => t' >= enc_T'))]_vars

\* A decode of at least two iterations that ended without truncation.
C5_Witness ==
    /\ pc = "report"
    /\ iters >= 2
    /\ ~Truncated
    /\ t >= enc_T

\* C6 as claimed: 0 <= t <= T in every reachable state.
C6_TWithinT == 0 <= t /\ t <= enc_T

\* C6 as amended: t >= 0, and t exceeds T only after an emit step taken at a frame
\* below T, by less than the duration that step selected.
C6_TBounded ==
    /\ 0 <= t
    /\ t > enc_T =>
        /\ best # blank_id
        /\ dur_idx \in 0 .. (Len(tdt_durations) - 1)
        /\ t <= enc_T - 1 + tdt_durations[dur_idx + 1]

\* An emit step from the last frame has taken t past T.
C6_Witness ==
    /\ t > enc_T
    /\ Len(tokens) >= 1

\* C7: an emit step appends best, sets last_label to best, commits the recurrent
\* state its decoder call returned, and advances t by max(1, duration) for the first
\* maximum of the duration classes: by at least 1 also when the duration is 0.
C7_EmitStep ==
    [][(IsIteration /\ best' # blank_id) =>
        LET logits == decoder_graph'[DecoderKey]
            durIdx == FirstMax(logits, blank_id + 1, JointLen - 1)
            dur    == tdt_durations[durIdx + 1]
        IN  /\ best' = FirstMax(logits, 0, blank_id)
            /\ tokens' = Append(tokens, best')
            /\ last_label' = best'
            /\ lstm' = DecoderState(lstm, last_label)
            /\ dur_idx' = durIdx
            /\ t' = t + (IF dur >= 1 THEN dur ELSE 1)
            /\ t' >= t + 1]_vars

\* The state after an emit step whose duration class has value 0.
C7_Witness ==
    /\ pc = "loop"
    /\ iters = 1
    /\ tokens = <<best>>
    /\ tdt_durations[dur_idx + 1] = 0
    /\ t = 1

\* C8: decodes of the same encoder output report the same token sequence, and every
\* decode starts from t = 0, last_label = blank_id, the zero state and no tokens.
C8_SameInputSameOutput ==
    /\ \A i, j \in DOMAIN printed :
          printed[i].enc = printed[j].enc => printed[i].tokens = printed[j].tokens
    /\ (pc = "loop" /\ iters = 0) =>
          /\ t = 0
          /\ last_label = blank_id
          /\ lstm = ZeroState
          /\ tokens = << >>

\* Two decodes of one encoder output that emitted tokens after a third decode of
\* another encoder output.
C8_Witness ==
    /\ Len(printed) = NumNorms
    /\ printed[1].enc = printed[3].enc
    /\ printed[2].enc # printed[1].enc
    /\ Len(printed[1].tokens) >= 2

\* C9: every duration index an emit step looks up lies in [0, len(tdt_durations)).
C9_DurIdxInRange ==
    /\ pc # "failed"
    /\ dur_idx # -1 => dur_idx \in 0 .. (Len(tdt_durations) - 1)

\* An emit step has used the last index of the table.
C9_Witness ==
    /\ dur_idx = Len(tdt_durations) - 1
    /\ Len(tokens) >= 1

\* C10: a decode of T = 0 frames ends with no token after zero iterations, without
\* any decoder call, and not truncated.
C10_EmptyUtterance ==
    (enc_T = 0 /\ pc # "setup") =>
        /\ tokens = << >>
        /\ iters = 0
        /\ dec_calls = 0
        /\ decoder_graph = << >>
        /\ ~Truncated
        /\ \A i \in DOMAIN printed : printed[i].tokens = << >> /\ printed[i].iters = 0

\* The script has reported its three decodes of an empty utterance.
C10_Witness ==
    /\ enc_T = 0
    /\ pc = "done"
    /\ Len(printed) = NumNorms

----------------------------------------------------------------------------
(* Text assembly: vocabulary of the properties. *)

\* The pieces of the ids inside [0, len(pieces)), in order.
KeptPieces(ids, pieces) ==
    LET kept == SelectSeq(ids, LAMBDA x : x \in 0 .. (Len(pieces) - 1))
    IN  [i \in 1 .. Len(kept) |-> pieces[kept[i] + 1]]

\* The first n strings of a list, concatenated.
RECURSIVE ConcatFirst(_, _)
ConcatFirst(strs, n) ==
    IF n = 0 THEN << >> ELSE ConcatFirst(strs, n - 1) \o strs[n]

\* The text the assembly is to return: the kept pieces concatenated, every marker
\* a space, cut down to the span from the first to the last non-whitespace character.
TextOf(ids, pieces) ==
    LET kp     == KeptPieces(ids, pieces)
        raw    == ConcatFirst(kp, Len(kp))
        spaced == [i \in 1 .. Len(raw) |-> IF raw[i] = Marker THEN " " ELSE raw[i]]
        solid  == {i \in 1 .. Len(spaced) : spaced[i] \notin Whitespace}
    IN  IF solid = {} THEN << >>
        ELSE LET lo == CHOOSE i \in solid : \A j \in solid : i <= j
                 hi == CHOOSE i \in solid : \A j \in solid : i >= j
             IN  [k \in 1 .. (hi - lo + 1) |-> spaced[lo + k - 1]]

\* C11: the assembled text is the pieces of the ids inside [0, len(vocab)) concatenated
\* in order without separator, every marker replaced by one space, leading and trailing
\* whitespace removed; ids outside the range add nothing and do not fail the assembly.
C11_Assemble ==
    /\ pc # "failed"
    /\ \A i \in DOMAIN printed : printed[i].text = TextOf(printed[i].tokens, vocab)

\* An assembly that dropped an id, kept another, replaced a marker inside the text
\* and stripped whitespace.
C11_Witness ==
    /\ Len(printed) = 1
    /\ \E i \in DOMAIN tokens : tokens[i] >= Len(vocab)
    /\ \E i \in DOMAIN tokens : tokens[i] < Len(vocab)
    /\ \E k \in DOMAIN printed[1].text : printed[1].text[k] = " "
    /\ Len(printed[1].text) < Len(JoinPieces(tokens, vocab))

\* C12 as claimed: Scenario D assembles to "hi foo there".
C12_ScenarioD_Claimed ==
    \A i \in DOMAIN printed :
        (vocab = ScenarioDVocab /\ printed[i].tokens = <<0, 2, 1>>) =>
            printed[i].text = <<"h", "i", " ", "f", "o", "o", " ", "t", "h", "e", "r", "e">>

\* C12 as amended: "foo" carries no marker and continues the word before it, so
\* Scenario D assembles to "hifoo there".
C12_ScenarioD ==
    \A i \in DOMAIN printed :
        (vocab = ScenarioDVocab /\ printed[i].tokens = <<0, 2, 1>>) =>
            printed[i].text = <<"h", "i", "f", "o", "o", " ", "t", "h", "e", "r", "e">>

\* Scenario D has been assembled.
C12_Witness ==
    /\ vocab = ScenarioDVocab
    /\ Len(printed) = 1
    /\ printed[1].tokens = <<0, 2, 1>>

----------------------------------------------------------------------------
(* Constant stubs: vocabulary of the properties. *)

\* One answer of the decoder, and what it selects.
StubVec == decoder_graph[CHOOSE k \in DOMAIN decoder_graph : TRUE]
StubPiece == FirstMax(StubVec, 0, blank_id)
StubDurIdx == FirstMax(StubVec, blank_id + 1, JointLen - 1)
StubDuration == tdt_durations[StubDurIdx + 1]

\* Every answer of the decoder is the same one.
StubIsConstant == \A k \in DOMAIN decoder_graph : decoder_graph[k] = StubVec

\* C13: a stub that always selects the same piece v and the same duration d >= 1 ends
\* not truncated with ceil(T / d) copies of v, emitted at frames 0, d, 2d, ...;
\* T = 3, v = 7, duration index 2 gives [7, 7] with t ending at 4.
C13_ScenarioB ==
    (StubIsConstant /\ StubPiece # blank_id /\ StubDuration >= 1) =>
        /\ pc \in {"loop", "report"} =>
              /\ tokens = [i \in 1 .. Len(tokens) |-> StubPiece]
              /\ t = Len(tokens) * StubDuration
        /\ pc = "report" =>
              /\ ~Truncated
              /\ Len(tokens) = (enc_T + StubDuration - 1) \div StubDuration
        /\ (pc = "report" /\ enc_T = 3 /\ StubPiece = 7 /\ StubDurIdx = 2) =>
              /\ tokens = <<7, 7>>
              /\ t = 4
              /\ iters = 2

\* Scenario B itself has been decoded.
C13_Witness ==
    /\ pc = "report"
    /\ enc_T = 3
    /\ StubIsConstant
    /\ StubPiece = 7
    /\ StubDurIdx = 2
    /\ tdt_durations = <<0, 1, 2, 3, 4>>
    /\ tokens = <<7, 7>>

\* C14: every iteration advances t by at least 1, so t >= iters in every state; the
\* loop is left after at most T iterations with t >= T, and a truncated result is
\* unreachable, whatever the cap factor and the decoder.
C14_NeverTruncated ==
    /\ t >= iters
    /\ iters <= enc_T
    /\ pc = "report" => t >= enc_T
    /\ ~Truncated

\* A decode of two frames left its loop at the very iteration the cap would have
\* stopped it, with no frame left.
C14_Witness ==
    /\ pc = "report"
    /\ enc_T >= 2
    /\ maxStepMultiplier = 1
    /\ iters = enc_T * maxStepMultiplier
    /\ t = enc_T

----------------------------------------------------------------------------
(* patch_encoder: vocabulary of the properties. *)

\* The graph file holds the axis constant 2.
AxisIsTwo(file) == file # << >> /\ file[1].constant = <<2>>

\* This step is a run of main() that ended as given.
RunEnded(how) == outcomes' = Append(outcomes, how)

====
